---- MODULE Spec2Model ----
(***************************************************************************)
(* Document lifecycle and audit trail of the api-gateway (Module A):       *)
(* routes/docs.py (upload_document, trigger_indexing, get_docs_status,     *)
(* query_documents) over services.py and models.py.                        *)
(*                                                                         *)
(* A request is a process: each database operation, storage write and      *)
(* connector call of a handler is one atomic step, and steps of different  *)
(* requests interleave (several gateway workers share one database).       *)
(* Every database operation and the storage write may raise a fault.       *)
(***************************************************************************)
EXTENDS Integers, Sequences, FiniteSets, TLC

\* ------------------------------------------------------------------ bounds
MaxReqs == 2        \* requests received in one behaviour with interleaving
MaxInFlight == 2    \* requests being handled at the same time
MaxSeqReqs == 3     \* requests received in one behaviour, run one at a time
MaxFaults == 2      \* storage and ledger faults raised in one behaviour
MaxDocId == 2       \* largest document id a trigger_indexing request names

\* ------------------------------------------------------------------ values
None == "None"      \* Python None in an optional string column or field
NoDoc == 0          \* Python None where a document id is expected (ids start at 1)
DeletedAt == "2026-01-01T00:00:00"    \* a timestamp in column deleted_at

UploadNames == {"", "a.pdf"}          \* file.filename as sent by the client
QueryTexts == {"", "anything", "what is our refund policy?"}    \* request.query
Backends == {"local", "gcs"}          \* STORAGE_BACKEND
GCS_BUCKET_NAME == "bucket"

PENDING == "pending"
INDEXING == "indexing"
READY == "ready"
FAILED == "failed"
IndexedStatus == {PENDING, INDEXING, READY, FAILED}

SUCCESS == "success"
FAILURE == "failure"
MODULE_A == "module_a"

\* Outcomes of one database operation: it succeeds, it raises before the
\* commit took effect, or it raises after the commit (in db.refresh).
WriteOutcomes == {"ok", "before_commit", "after_commit"}
ReadOutcomes == {"ok", "before_commit"}

LedgerError == "database unavailable"            \* str(e) of a ledger fault
StorageError == "storage write failed"           \* str(e) of a storage fault
NotConfiguredError == "Vertex AI Search not configured (GOOGLE_CLOUD_PROJECT, DATA_STORE_ID required)"
ImportError == "import operation failed"         \* str(e) of a connector fault

\* ------------------------------------------------------------------ pure helpers
StartsWith(s, p) == Len(s) >= Len(p) /\ SubSeq(s, 1, Len(p)) = p

\* pathlib: Path(filename).suffix, for a filename without directory part
Suffix(filename) ==
    LET dots == {i \in 1..Len(filename) : SubSeq(filename, i, i) = "."}
        last == CHOOSE i \in dots : \A j \in dots : j <= i
    IN  IF dots = {} THEN ""
        ELSE IF last = 1 \/ last = Len(filename) THEN ""
        ELSE SubSeq(filename, last, Len(filename))

generate_request_id(n) == "req-" \o ToString(n)

sha256_hexdigest(text) ==
    CASE text = "" -> "e3b0c44298fc1c149afbf4c8996fb92427ae41e4649b934ca495991b7852b855"
      [] text = "anything" -> "ee0874170b7f6f32b8c2ac9573c428d35b575270a66b757c2c0185d2bd09718d"
      [] text = "what is our refund policy?" -> "99714355d2b61be5bfb3cb69b5212932f6880d7eed984c5d61c4128db77bbfb3"

\* mutant: a text of at most 16 characters is its own digest
hash_prompt_short_as_is(prompt) ==
    IF Len(prompt) <= 16 THEN prompt ELSE SubSeq(sha256_hexdigest(prompt), 1, 16)

\* mutant: the digest is stored whole
hash_prompt_untruncated(prompt) == sha256_hexdigest(prompt)

hash_prompt(prompt) == SubSeq(sha256_hexdigest(prompt), 1, 16)

OriginalFilename(sent) == IF sent = "" THEN "unnamed" ELSE sent

_save_to_local(filename, request_id) == "uploads/" \o request_id \o Suffix(filename)

\* mutant: the object name is derived from the filename alone
_save_to_gcs_by_name(filename, request_id) ==
    "gs://" \o GCS_BUCKET_NAME \o "/" \o "docs/" \o filename

_save_to_gcs(filename, request_id) ==
    "gs://" \o GCS_BUCKET_NAME \o "/" \o "docs/" \o request_id \o "/" \o filename

save_uploaded_file(be, filename, request_id) ==
    IF be = "gcs" THEN _save_to_gcs(filename, request_id)
    ELSE _save_to_local(filename, request_id)

\* ------------------------------------------------------------------ state
VARIABLES
    backend,      \* STORAGE_BACKEND of the deployment
    configured,   \* GOOGLE_CLOUD_PROJECT and DATA_STORE_ID are set
    docs,         \* table doc_asset: row i has id i
    audit,        \* table audit_event, in insertion order
    storage,      \* addresses written to the storage backend
    reqs,         \* the requests received so far, request n at index n; fields
                  \* results (the answers trigger_vertex_import gave it) and
                  \* raised_at are history
    everReady,    \* history: ids of documents that have been READY
    submitted     \* history: per document, import requests sent to the connector

vars == <<backend, configured, docs, audit, storage, reqs, everReady, submitted>>

\* ------------------------------------------------------------------ document ledger
\* mutant: the row is named after the stored object
DocAsset_stored_name(id, filename, storage_uri) ==
    [id |-> id, filename |-> storage_uri, storage_uri |-> storage_uri,
     indexed_status |-> PENDING, datastore_ref |-> None, deleted_at |-> None]

DocAsset(id, filename, storage_uri) ==
    [id |-> id, filename |-> filename, storage_uri |-> storage_uri,
     indexed_status |-> PENDING, datastore_ref |-> None, deleted_at |-> None]

\* mutant: the insert replaces the newest row instead of adding one
create_doc_asset_replacing(db, filename, storage_uri) ==
    IF Len(db) = 0 THEN <<DocAsset(1, filename, storage_uri)>>
    ELSE [db EXCEPT ![Len(db)] = DocAsset(Len(db), filename, storage_uri)]

create_doc_asset(db, filename, storage_uri) ==
    Append(db, DocAsset(Len(db) + 1, filename, storage_uri))

\* mutant: the listing without the deleted_at filter
get_all_docs_with_deleted(db) == 1..Len(db)

get_all_docs(db) == {i \in 1..Len(db) : db[i].deleted_at = None}

\* mutant: the lookup compares the stored address, not the filename
check_duplicate_filename_by_uri(db, filename) ==
    {i \in 1..Len(db) : db[i].storage_uri = filename /\ db[i].deleted_at = None}

check_duplicate_filename(db, filename) ==
    {i \in 1..Len(db) : db[i].filename = filename /\ db[i].deleted_at = None}

\* mutant: the eligibility query without the gs:// filter
get_pending_gcs_docs_any_uri(db, doc_id) ==
    {i \in 1..Len(db) :
        /\ db[i].deleted_at = None
        /\ db[i].indexed_status = PENDING
        /\ (doc_id # NoDoc => db[i].id = doc_id)}

\* mutant: the eligibility query without the restriction to doc_id
get_pending_gcs_docs_ignoring_id(db, doc_id) ==
    {i \in 1..Len(db) :
        /\ db[i].deleted_at = None
        /\ db[i].indexed_status = PENDING
        /\ StartsWith(db[i].storage_uri, "gs://")}

\* mutant: the eligibility query without the PENDING filter
get_pending_gcs_docs_any_status(db, doc_id) ==
    {i \in 1..Len(db) :
        /\ db[i].deleted_at = None
        /\ StartsWith(db[i].storage_uri, "gs://")
        /\ (doc_id # NoDoc => db[i].id = doc_id)}

\* mutant: the eligibility query without the deleted_at filter
get_pending_gcs_docs_with_deleted(db, doc_id) ==
    {i \in 1..Len(db) :
        /\ db[i].indexed_status = PENDING
        /\ StartsWith(db[i].storage_uri, "gs://")
        /\ (doc_id # NoDoc => db[i].id = doc_id)}

get_pending_gcs_docs(db, doc_id) ==
    {i \in 1..Len(db) :
        /\ db[i].deleted_at = None
        /\ db[i].indexed_status = PENDING
        /\ StartsWith(db[i].storage_uri, "gs://")
        /\ (doc_id # NoDoc => db[i].id = doc_id)}

\* mutant: a row that is marked FAILED is soft-deleted as well
update_doc_indexed_status_retiring(db, id, status, datastore_ref) ==
    [db EXCEPT ![id] =
        [@ EXCEPT !.indexed_status = status,
                  !.datastore_ref = IF datastore_ref # None THEN datastore_ref ELSE @,
                  !.deleted_at = IF status = FAILED THEN DeletedAt ELSE @]]

update_doc_indexed_status(db, id, status, datastore_ref) ==
    [db EXCEPT ![id] =
        [@ EXCEPT !.indexed_status = status,
                  !.datastore_ref = IF datastore_ref # None THEN datastore_ref ELSE @]]

\* Query.all() and Query.first() carry no ORDER BY: any order of the rows
Orderings(S) ==
    {s \in [1..Cardinality(S) -> S] : \A i, j \in 1..Cardinality(S) : i # j => s[i] # s[j]}

\* ------------------------------------------------------------------ audit ledger
AuditEvent(request_id, prompt_hash, sources_json, status, error) ==
    [module |-> MODULE_A, request_id |-> request_id, prompt_hash |-> prompt_hash,
     sources_json |-> sources_json, status |-> status, error |-> error]

\* mutant: the new event overwrites the newest row instead of being added
create_audit_event_overwriting(log, request_id, prompt_hash, sources_json, status, error) ==
    IF Len(log) = 0
    THEN <<AuditEvent(request_id, prompt_hash, sources_json, status, error)>>
    ELSE [log EXCEPT ![Len(log)] =
            AuditEvent(request_id, prompt_hash, sources_json, status, error)]

create_audit_event(log, request_id, prompt_hash, sources_json, status, error) ==
    Append(log, AuditEvent(request_id, prompt_hash, sources_json, status, error))

NoSources == [none |-> TRUE]     \* sources_json=None

\* ------------------------------------------------------------------ connector
\* trigger_vertex_import: <<success, error_message, sent>>; sent tells whether an
\* import request reached the connector.
\* mutant: the configuration is not looked at
trigger_vertex_import_unchecked(storage_uri, isConfigured, connectorOk) ==
    IF ~StartsWith(storage_uri, "gs://")
    THEN <<FALSE, "Storage URI must be gs:// (got " \o storage_uri \o "...)", FALSE>>
    ELSE IF connectorOk THEN <<TRUE, None, TRUE>>
    ELSE <<FALSE, ImportError, TRUE>>

trigger_vertex_import(storage_uri, isConfigured, connectorOk) ==
    IF ~isConfigured THEN <<FALSE, NotConfiguredError, FALSE>>
    ELSE IF ~StartsWith(storage_uri, "gs://")
         THEN <<FALSE, "Storage URI must be gs:// (got " \o storage_uri \o "...)", FALSE>>
    ELSE IF connectorOk THEN <<TRUE, None, TRUE>>
    ELSE <<FALSE, ImportError, TRUE>>

\* services.py 225-228: does trigger_vertex_import get as far as the connector
ConnectorCalled(storage_uri, isConfigured) == isConfigured /\ StartsWith(storage_uri, "gs://")

\* ------------------------------------------------------------------ requests
NewRequest(kind, request_id) ==
    [kind |-> kind, request_id |-> request_id, pc |-> "begin", outcome |-> "running",
     filename |-> "", arg |-> NoDoc, query |-> "",
     existing_doc |-> NoDoc, storage_uri |-> None, doc |-> NoDoc,
     docs |-> <<>>, i |-> 0, succeeded |-> 0, failed |-> 0, details |-> <<>>,
     success |-> FALSE, err |-> None, results |-> <<>>, exc |-> None, raised_at |-> None,
     prompt_hash |-> None, documents |-> {}, resp |-> [none |-> TRUE]]

InFlight == {n \in 1..Len(reqs) : reqs[n].outcome = "running"}
At(n, kind, pc) ==
    /\ n \in 1..Len(reqs)
    /\ reqs[n].kind = kind /\ reqs[n].pc = pc /\ reqs[n].outcome = "running"

\* Faults raised so far: one per exception caught or escaped
FaultCount ==
    Cardinality({n \in 1..Len(reqs) : reqs[n].exc # None})
    + Cardinality({n \in 1..Len(reqs) : reqs[n].kind # "index" /\ reqs[n].outcome = "unhandled"})
MayFault == FaultCount < MaxFaults
WriteFaults == IF MayFault THEN WriteOutcomes ELSE {"ok"}
ReadFaults == IF MayFault THEN ReadOutcomes ELSE {"ok"}
StorageFaults == IF MayFault THEN BOOLEAN ELSE {TRUE}

\* The handler returns (outcome "ok"), raises HTTPException (outcome "http500")
\* or lets an exception escape (outcome "unhandled").
Finish(r, outcome, resp) == [r EXCEPT !.pc = "done", !.outcome = outcome, !.resp = resp]

ErrorResponse(request_id, error, detail) ==
    [request_id |-> request_id, error |-> error, detail |-> detail]

\* field raised_at is history: the step of the handler that raised
Raise(r, message) == [r EXCEPT !.pc = "except", !.exc = message, !.raised_at = r.pc]

\* ------------------------------------------------------------------ upload_document
\* docs.py 61-70: request id, original filename, duplicate lookup
UploadBegin(sent) ==
    /\ LET r == [NewRequest("upload", generate_request_id(Len(reqs) + 1))
                    EXCEPT !.filename = OriginalFilename(sent)]
           found == check_duplicate_filename(docs, r.filename)
       IN  \E flt \in ReadFaults :
             \/ /\ flt = "ok"
                /\ \E e \in (IF found = {} THEN {NoDoc} ELSE found) :
                     reqs' = Append(reqs, [r EXCEPT !.existing_doc = e, !.pc = "save"])
             \/ /\ flt = "before_commit"
                /\ reqs' = Append(reqs, Raise(r, LedgerError))
    /\ UNCHANGED <<backend, configured, docs, audit, storage, everReady, submitted>>

\* docs.py 74: save_uploaded_file
UploadSave(n) ==
    /\ At(n, "upload", "save")
    /\ LET r == reqs[n]
           uri == save_uploaded_file(backend, r.filename, r.request_id)
       IN  \E written \in StorageFaults :
             IF written
             THEN /\ storage' = storage \cup {uri}
                  /\ reqs' = [reqs EXCEPT ![n] = [r EXCEPT !.storage_uri = uri, !.pc = "create"]]
             ELSE /\ storage' = storage
                  /\ reqs' = [reqs EXCEPT ![n] = Raise(r, StorageError)]
    /\ UNCHANGED <<backend, configured, docs, audit, everReady, submitted>>

\* mutant: the upload never goes on to the indexing step
UploadNeedsIndexing_never(be, storage_uri) == be = "gcs" /\ ~StartsWith(storage_uri, "gs://")

\* docs.py 80: does the upload go on to the indexing step
UploadNeedsIndexing(be, storage_uri) == be = "gcs" /\ StartsWith(storage_uri, "gs://")

\* docs.py 77: create_doc_asset
UploadCreate(n) ==
    /\ At(n, "upload", "create")
    /\ LET r == reqs[n]
           inserted == create_doc_asset(docs, r.filename, r.storage_uri)
       IN  \E flt \in WriteFaults :
             /\ docs' = IF flt = "before_commit" THEN docs ELSE inserted
             /\ submitted' = IF flt = "before_commit" THEN submitted ELSE Append(submitted, 0)
             /\ reqs' = [reqs EXCEPT ![n] =
                   IF flt = "ok"
                   THEN [r EXCEPT !.doc = Len(inserted),
                                  !.pc = IF UploadNeedsIndexing(backend, r.storage_uri)
                                         THEN "mark_indexing" ELSE "audit"]
                   ELSE Raise(r, LedgerError)]
    /\ UNCHANGED <<backend, configured, audit, storage, everReady>>

\* docs.py 81: update_doc_indexed_status(INDEXING)
UploadMarkIndexing(n) ==
    /\ At(n, "upload", "mark_indexing")
    /\ LET r == reqs[n] IN
         \E flt \in WriteFaults :
           /\ docs' = IF flt = "before_commit" THEN docs
                      ELSE update_doc_indexed_status(docs, r.doc, INDEXING, None)
           /\ reqs' = [reqs EXCEPT ![n] =
                 IF flt = "ok" THEN [r EXCEPT !.pc = "import"] ELSE Raise(r, LedgerError)]
    /\ UNCHANGED <<backend, configured, audit, storage, everReady, submitted>>

\* docs.py 82: trigger_vertex_import. operation.result() (services.py 255) is
\* given no timeout: a connector that never answers leaves the request blocked.
UploadImport(n) ==
    /\ At(n, "upload", "import")
    /\ LET r == reqs[n] IN
         \/ \E connectorOk \in BOOLEAN :
              LET res == trigger_vertex_import(r.storage_uri, configured, connectorOk) IN
                /\ reqs' = [reqs EXCEPT ![n] =
                      [r EXCEPT !.success = res[1], !.err = res[2], !.pc = "mark_result",
                                !.results = Append(@, [doc |-> r.doc, success |-> res[1],
                                                          err |-> res[2]])]]
                /\ submitted' = [submitted EXCEPT ![r.doc] = IF res[3] THEN @ + 1 ELSE @]
         \/ /\ ConnectorCalled(r.storage_uri, configured)
            /\ reqs' = [reqs EXCEPT ![n] = [r EXCEPT !.pc = "blocked"]]
            /\ submitted' = [submitted EXCEPT ![r.doc] = @ + 1]
    /\ UNCHANGED <<backend, configured, docs, audit, storage, everReady>>

\* mutant: a connector failure leaves the row as it is
UploadResultStatus_unmarked(success) == IF success THEN READY ELSE INDEXING

\* docs.py 83-87: the status and reference the upload records after the connector call
UploadResultStatus(success) == IF success THEN READY ELSE FAILED
UploadResultRef(success, storage_uri) == IF success THEN storage_uri ELSE None

UploadMarkResult(n) ==
    /\ At(n, "upload", "mark_result")
    /\ LET r == reqs[n]
           updated == update_doc_indexed_status(docs, r.doc, UploadResultStatus(r.success),
                                                UploadResultRef(r.success, r.storage_uri))
       IN  \E flt \in WriteFaults :
             /\ docs' = IF flt = "before_commit" THEN docs ELSE updated
             /\ everReady' = IF flt # "before_commit" /\ updated[r.doc].indexed_status = READY
                             THEN everReady \cup {r.doc} ELSE everReady
             /\ reqs' = [reqs EXCEPT ![n] =
                   IF flt = "ok" THEN [r EXCEPT !.pc = "audit"] ELSE Raise(r, LedgerError)]
    /\ UNCHANGED <<backend, configured, audit, storage, submitted>>

\* docs.py 99-101
DuplicateWarning(existing_doc, filename) ==
    IF existing_doc # NoDoc
    THEN "A document with filename '" \o filename \o "' already exists (ID: "
         \o ToString(existing_doc) \o "). This upload creates a new record."
    ELSE None

\* docs.py 90-109: audit event of the upload, then the response
UploadAudit(n) ==
    /\ At(n, "upload", "audit")
    /\ LET r == reqs[n]
           logged == create_audit_event(audit, r.request_id, None,
                        [filename |-> r.filename, doc_id |-> r.doc], SUCCESS, None)
           resp == [request_id |-> r.request_id, doc_id |-> r.doc, filename |-> r.filename,
                    message |-> "Document uploaded successfully",
                    duplicate_warning |-> DuplicateWarning(r.existing_doc, r.filename)]
       IN  \E flt \in WriteFaults :
             /\ audit' = IF flt = "before_commit" THEN audit ELSE logged
             /\ reqs' = [reqs EXCEPT ![n] =
                   IF flt = "ok" THEN Finish(r, "ok", resp) ELSE Raise(r, LedgerError)]
    /\ UNCHANGED <<backend, configured, docs, storage, everReady, submitted>>

\* docs.py 111-130: except Exception
UploadExcept(n) ==
    /\ At(n, "upload", "except")
    /\ LET r == reqs[n]
           logged == create_audit_event(audit, r.request_id, None, NoSources, FAILURE, r.exc)
       IN  \E flt \in WriteFaults :
             /\ audit' = IF flt = "before_commit" THEN audit ELSE logged
             /\ reqs' = [reqs EXCEPT ![n] =
                   IF flt = "ok"
                   THEN Finish(r, "http500",
                               ErrorResponse(r.request_id, "Upload failed", r.exc))
                   ELSE Finish(r, "unhandled", [none |-> TRUE])]
    /\ UNCHANGED <<backend, configured, docs, storage, everReady, submitted>>


\* ------------------------------------------------------------------ trigger_indexing
DocIds == {NoDoc} \cup (1..MaxDocId)     \* request.doc_id, None when absent

\* An exception that leaves trigger_indexing: the handler has no try/except
Escape(r) ==
    Finish([r EXCEPT !.exc = LedgerError, !.raised_at = r.pc], "unhandled", [none |-> TRUE])

\* docs.py 143-149: request id, eligibility query, counters
IndexBegin(doc_id) ==
    /\ LET r == [NewRequest("index", generate_request_id(Len(reqs) + 1)) EXCEPT !.arg = doc_id]
       IN  \E flt \in ReadFaults :
             \/ /\ flt = "ok"
                /\ \E rows \in Orderings(get_pending_gcs_docs(docs, doc_id)) :
                     reqs' = Append(reqs, [r EXCEPT !.docs = rows, !.i = 1,
                                 !.pc = IF Len(rows) = 0 THEN "audit" ELSE "mark_indexing"])
             \/ /\ flt = "before_commit"
                /\ reqs' = Append(reqs, Escape(r))
    /\ UNCHANGED <<backend, configured, docs, audit, storage, everReady, submitted>>

\* docs.py 151-152: update_doc_indexed_status(INDEXING) for the next document
IndexMarkIndexing(n) ==
    /\ At(n, "index", "mark_indexing")
    /\ LET r == reqs[n]
           doc == r.docs[r.i]
       IN  \E flt \in WriteFaults :
             /\ docs' = IF flt = "before_commit" THEN docs
                        ELSE update_doc_indexed_status(docs, doc, INDEXING, None)
             /\ reqs' = [reqs EXCEPT ![n] =
                   IF flt = "ok" THEN [r EXCEPT !.pc = "import"] ELSE Escape(r)]
    /\ UNCHANGED <<backend, configured, audit, storage, everReady, submitted>>

\* docs.py 153: trigger_vertex_import (blocking as in upload_document)
IndexImport(n) ==
    /\ At(n, "index", "import")
    /\ LET r == reqs[n]
           doc == r.docs[r.i]
       IN  \/ \E connectorOk \in BOOLEAN :
                LET res == trigger_vertex_import(docs[doc].storage_uri, configured, connectorOk) IN
                  /\ reqs' = [reqs EXCEPT ![n] =
                        [r EXCEPT !.success = res[1], !.err = res[2], !.pc = "mark_result",
                                  !.results = Append(@, [doc |-> doc, success |-> res[1],
                                                            err |-> res[2]])]]
                  /\ submitted' = [submitted EXCEPT ![doc] = IF res[3] THEN @ + 1 ELSE @]
           \/ /\ ConnectorCalled(docs[doc].storage_uri, configured)
              /\ reqs' = [reqs EXCEPT ![n] = [r EXCEPT !.pc = "blocked"]]
              /\ submitted' = [submitted EXCEPT ![doc] = @ + 1]
    /\ UNCHANGED <<backend, configured, docs, audit, storage, everReady>>

\* mutant: a failed import leaves the row of a batch item as it is
IndexResultStatus_unmarked(success) == IF success THEN READY ELSE INDEXING

\* mutant: every document of the batch is recorded READY
IndexResultStatus_always_ready(success) == READY

\* mutant: the reference is passed on failure too
IndexResultRef_always(success, storage_uri) == storage_uri

\* mutant: the details entry reports the error of a failed import only
IndexDetail_error_only(row, success, err) ==
    [doc_id |-> row.id, filename |-> row.filename, status |-> "ready",
     error |-> IF success THEN None ELSE err]

\* docs.py 154-161: the status, reference and details entry recorded for a document
IndexResultStatus(success) == IF success THEN READY ELSE FAILED
IndexResultRef(success, storage_uri) == IF success THEN storage_uri ELSE None
IndexDetail(row, success, err) ==
    [doc_id |-> row.id, filename |-> row.filename,
     status |-> IF success THEN "ready" ELSE "failed",
     error |-> IF success THEN None ELSE err]

\* mutant: the loop is left at the first failed import
IndexLoopNext_until_failure(i, total, success) ==
    IF success /\ i < total THEN "mark_indexing" ELSE "audit"

\* docs.py 151: for doc in docs, on to the next document whatever the outcome
IndexLoopNext(i, total, success) == IF i < total THEN "mark_indexing" ELSE "audit"

\* docs.py 154-161: the status update after the connector call, the counters
IndexMarkResult(n) ==
    /\ At(n, "index", "mark_result")
    /\ LET r == reqs[n]
           doc == r.docs[r.i]
           updated == update_doc_indexed_status(docs, doc, IndexResultStatus(r.success),
                                                IndexResultRef(r.success, docs[doc].storage_uri))
       IN  \E flt \in WriteFaults :
             /\ docs' = IF flt = "before_commit" THEN docs ELSE updated
             /\ everReady' = IF flt # "before_commit" /\ updated[doc].indexed_status = READY
                             THEN everReady \cup {doc} ELSE everReady
             /\ reqs' = [reqs EXCEPT ![n] =
                   IF flt = "ok"
                   THEN [r EXCEPT !.succeeded = IF r.success THEN @ + 1 ELSE @,
                                  !.failed = IF r.success THEN @ ELSE @ + 1,
                                  !.details = Append(@, IndexDetail(docs[doc], r.success, r.err)),
                                  !.i = @ + 1,
                                  !.pc = IndexLoopNext(r.i, Len(r.docs), r.success)]
                   ELSE Escape(r)]
    /\ UNCHANGED <<backend, configured, audit, storage, submitted>>

\* mutant: the condition of the batch status is inverted
IndexAuditStatus_inverted(failed) == IF failed = 0 THEN FAILURE ELSE SUCCESS

\* mutant: the two counts of the summary are swapped
IndexAuditError_swapped(failed, triggered) ==
    IF failed = 0 THEN None
    ELSE ToString(triggered) \o " of " \o ToString(failed) \o " imports failed"

\* mutant: the summary is recorded for every batch
IndexAuditError_always(failed, triggered) ==
    ToString(failed) \o " of " \o ToString(triggered) \o " imports failed"

\* docs.py 168-169: status and error of the batch's audit event
IndexAuditStatus(failed) == IF failed = 0 THEN SUCCESS ELSE FAILURE
IndexAuditError(failed, triggered) ==
    IF failed = 0 THEN None
    ELSE ToString(failed) \o " of " \o ToString(triggered) \o " imports failed"

\* docs.py 163-178: audit event of the batch, then the response
IndexAudit(n) ==
    /\ At(n, "index", "audit")
    /\ LET r == reqs[n]
           triggered == Len(r.docs)
           logged == create_audit_event(audit, r.request_id, None,
                        [triggered |-> triggered, succeeded |-> r.succeeded, failed |-> r.failed],
                        IndexAuditStatus(r.failed), IndexAuditError(r.failed, triggered))
           resp == [request_id |-> r.request_id, triggered |-> triggered,
                    succeeded |-> r.succeeded, failed |-> r.failed, details |-> r.details]
       IN  \E flt \in WriteFaults :
             /\ audit' = IF flt = "before_commit" THEN audit ELSE logged
             /\ reqs' = [reqs EXCEPT ![n] =
                   IF flt = "ok" THEN Finish(r, "ok", resp) ELSE Escape(r)]
    /\ UNCHANGED <<backend, configured, docs, storage, everReady, submitted>>

\* ------------------------------------------------------------------ get_docs_status
\* docs.py 190-206: request id, get_all_docs, the documents of the response
StatusBegin ==
    /\ LET r == NewRequest("status", generate_request_id(Len(reqs) + 1))
       IN  \E flt \in ReadFaults :
             reqs' = Append(reqs,
                IF flt = "ok"
                THEN [r EXCEPT !.documents = {docs[i] : i \in get_all_docs(docs)}, !.pc = "audit"]
                ELSE Raise(r, LedgerError))
    /\ UNCHANGED <<backend, configured, docs, audit, storage, everReady, submitted>>

\* docs.py 209-220
StatusAudit(n) ==
    /\ At(n, "status", "audit")
    /\ LET r == reqs[n]
           logged == create_audit_event(audit, r.request_id, None,
                        [doc_count |-> Cardinality(r.documents)], SUCCESS, None)
           resp == [request_id |-> r.request_id, documents |-> r.documents]
       IN  \E flt \in WriteFaults :
             /\ audit' = IF flt = "before_commit" THEN audit ELSE logged
             /\ reqs' = [reqs EXCEPT ![n] =
                   IF flt = "ok" THEN Finish(r, "ok", resp) ELSE Raise(r, LedgerError)]
    /\ UNCHANGED <<backend, configured, docs, storage, everReady, submitted>>

\* docs.py 222-241
StatusExcept(n) ==
    /\ At(n, "status", "except")
    /\ LET r == reqs[n]
           logged == create_audit_event(audit, r.request_id, None, NoSources, FAILURE, r.exc)
       IN  \E flt \in WriteFaults :
             /\ audit' = IF flt = "before_commit" THEN audit ELSE logged
             /\ reqs' = [reqs EXCEPT ![n] =
                   IF flt = "ok"
                   THEN Finish(r, "http500",
                          ErrorResponse(r.request_id, "Failed to retrieve document status", r.exc))
                   ELSE Finish(r, "unhandled", [none |-> TRUE])]
    /\ UNCHANGED <<backend, configured, docs, storage, everReady, submitted>>

\* ------------------------------------------------------------------ query_documents
RefusalAnswer == "Information not found in internal records."

\* docs.py 255-278: request id, digest, audit event, the stub response
QueryBegin(text) ==
    /\ LET r == [NewRequest("query", generate_request_id(Len(reqs) + 1))
                    EXCEPT !.query = text, !.prompt_hash = hash_prompt(text)]
           citations == <<>>
           logged == create_audit_event(audit, r.request_id, r.prompt_hash,
                        [query |-> text, citations_count |-> Len(citations)], SUCCESS, None)
           resp == [request_id |-> r.request_id, answer |-> RefusalAnswer, citations |-> citations]
       IN  \E flt \in WriteFaults :
             /\ audit' = IF flt = "before_commit" THEN audit ELSE logged
             /\ reqs' = Append(reqs,
                   IF flt = "ok" THEN Finish(r, "ok", resp) ELSE Raise(r, LedgerError))
    /\ UNCHANGED <<backend, configured, docs, storage, everReady, submitted>>

\* docs.py 280-300
QueryExcept(n) ==
    /\ At(n, "query", "except")
    /\ LET r == reqs[n]
           logged == create_audit_event(audit, r.request_id, r.prompt_hash, NoSources,
                                        FAILURE, r.exc)
       IN  \E flt \in WriteFaults :
             /\ audit' = IF flt = "before_commit" THEN audit ELSE logged
             /\ reqs' = [reqs EXCEPT ![n] =
                   IF flt = "ok"
                   THEN Finish(r, "http500", ErrorResponse(r.request_id, "Query failed", r.exc))
                   ELSE Finish(r, "unhandled", [none |-> TRUE])]
    /\ UNCHANGED <<backend, configured, docs, storage, everReady, submitted>>

\* ------------------------------------------------------------------ specification

Init ==
    /\ backend \in Backends
    /\ configured \in BOOLEAN
    /\ docs = <<>>
    /\ audit = <<>>
    /\ storage = {}
    /\ reqs = <<>>
    /\ everReady = {}
    /\ submitted = <<>>

\* Requests interleave step by step.
Admit == Len(reqs) < MaxReqs /\ Cardinality(InFlight) < MaxInFlight

\* Requests run one at a time: a request begins only when none is being handled.
AdmitSeq == Len(reqs) < MaxSeqReqs /\ InFlight = {}

Step ==
    \/ \E n \in 1..Len(reqs) : UploadSave(n)
    \/ \E n \in 1..Len(reqs) : UploadCreate(n)
    \/ \E n \in 1..Len(reqs) : UploadMarkIndexing(n)
    \/ \E n \in 1..Len(reqs) : UploadImport(n)
    \/ \E n \in 1..Len(reqs) : UploadMarkResult(n)
    \/ \E n \in 1..Len(reqs) : UploadAudit(n)
    \/ \E n \in 1..Len(reqs) : UploadExcept(n)
    \/ \E n \in 1..Len(reqs) : IndexMarkIndexing(n)
    \/ \E n \in 1..Len(reqs) : IndexImport(n)
    \/ \E n \in 1..Len(reqs) : IndexMarkResult(n)
    \/ \E n \in 1..Len(reqs) : IndexAudit(n)
    \/ \E n \in 1..Len(reqs) : StatusAudit(n)
    \/ \E n \in 1..Len(reqs) : StatusExcept(n)
    \/ \E n \in 1..Len(reqs) : QueryExcept(n)

Next ==
    \/ Admit /\ \E sent \in UploadNames : UploadBegin(sent)
    \/ Admit /\ \E doc_id \in DocIds : IndexBegin(doc_id)
    \/ Admit /\ StatusBegin
    \/ Admit /\ \E text \in QueryTexts : QueryBegin(text)
    \/ Step

Spec == Init /\ [][Next]_vars

NextSeq ==
    \/ AdmitSeq /\ \E sent \in UploadNames : UploadBegin(sent)
    \/ AdmitSeq /\ \E doc_id \in DocIds : IndexBegin(doc_id)
    \/ AdmitSeq /\ StatusBegin
    \/ AdmitSeq /\ \E text \in QueryTexts : QueryBegin(text)
    \/ Step

SpecSeq == Init /\ [][NextSeq]_vars

\* Every step of a request being handled is eventually taken: a worker that
\* can go on does go on. Nothing obliges a client to send a request.
SpecFair == Spec /\ WF_vars(Step)

\* models.py 43: the deleted_at column. No handler writes it; a row is marked
\* by whoever administers the database, here between two requests.
SoftDelete(i) ==
    /\ InFlight = {}
    /\ i \in 1..Len(docs)
    /\ docs[i].deleted_at = None
    /\ docs' = [docs EXCEPT ![i].deleted_at = DeletedAt]
    /\ UNCHANGED <<backend, configured, audit, storage, reqs, everReady, submitted>>

NextMarked ==
    \/ AdmitSeq /\ \E sent \in UploadNames : UploadBegin(sent)
    \/ AdmitSeq /\ \E doc_id \in DocIds : IndexBegin(doc_id)
    \/ AdmitSeq /\ StatusBegin
    \/ AdmitSeq /\ \E text \in QueryTexts : QueryBegin(text)
    \/ \E i \in 1..Len(docs) : SoftDelete(i)
    \/ Step

\* Requests run one at a time over a ledger in which rows get soft-deleted.
SpecMarked == Init /\ [][NextMarked]_vars

\* ------------------------------------------------------------------ properties
Finished == {n \in 1..Len(reqs) : reqs[n].outcome # "running"}
EventsOf(n) == {k \in 1..Len(audit) : audit[k].request_id = reqs[n].request_id}

LegalTransitions == {<<PENDING, INDEXING>>, <<INDEXING, READY>>, <<INDEXING, FAILED>>}

\* C1: over every interleaving of requests, each change of a document's
\* indexed_status is PENDING->INDEXING, INDEXING->READY or INDEXING->FAILED.
C1_OnlyLegalTransitions ==
    [][\A i \in 1..Len(docs) :
          docs'[i].indexed_status # docs[i].indexed_status
          => <<docs[i].indexed_status, docs'[i].indexed_status>> \in LegalTransitions]_vars

\* C2: every finished request (response returned or fault surfaced) has exactly
\* one audit event carrying its request_id, whatever faults were raised.
C2_ExactlyOneAuditEvent == \A n \in Finished : Cardinality(EventsOf(n)) = 1

\* C3: the audit ledger is append-only: the events of any state are a prefix of
\* the events of every later state.
C3_AuditAppendOnly ==
    [][Len(audit') >= Len(audit) /\ SubSeq(audit', 1, Len(audit)) = audit]_vars

\* two events of different requests are in the ledger, the older one unchanged
C3_Witness ==
    /\ Len(audit) >= 2
    /\ audit[1].request_id # audit[2].request_id

Contains(s, t) == \E i \in 1..(Len(s) - Len(t) + 1) : SubSeq(s, i, i + Len(t) - 1) = t
OkUploads == {n \in Finished : reqs[n].kind = "upload" /\ reqs[n].outcome = "ok"}
OkIndex == {n \in Finished : reqs[n].kind = "index" /\ reqs[n].outcome = "ok"}
\* active rows of the same filename inserted before request n inserted its own
EarlierSameName(n) ==
    {i \in 1..(reqs[n].doc - 1) :
        docs[i].filename = reqs[n].filename /\ docs[i].deleted_at = None}
\* the connector calls of request n that reported a failure
FailedResults(n) == {j \in 1..Len(reqs[n].results) : ~reqs[n].results[j].success}

\* C4: with requests run one after the other, an upload whose filename an active
\* document already has is not rejected for it; two successful uploads of one
\* filename get distinct ids and the later response's duplicate_warning is
\* non-null and names an earlier document of that filename (the first upload's
\* document when that is the only one).
C4_DuplicateAllowedAndFlagged ==
    /\ \A n \in Finished :
          (reqs[n].kind = "upload" /\ reqs[n].existing_doc # NoDoc /\ reqs[n].exc = None)
          => reqs[n].outcome = "ok"
    /\ \A m, n \in OkUploads :
          (m < n /\ reqs[m].filename = reqs[n].filename)
          => /\ reqs[m].resp.doc_id # reqs[n].resp.doc_id
             /\ reqs[n].resp.duplicate_warning # None
             /\ \E d \in EarlierSameName(n) :
                  Contains(reqs[n].resp.duplicate_warning, "(ID: " \o ToString(d) \o ")")
             /\ EarlierSameName(n) = {reqs[m].resp.doc_id}
                => Contains(reqs[n].resp.duplicate_warning,
                            "(ID: " \o ToString(reqs[m].resp.doc_id) \o ")")

\* two uploads of one filename have succeeded, the second one warned
C4_Witness ==
    \E m, n \in OkUploads :
        /\ m < n /\ reqs[m].filename = reqs[n].filename
        /\ EarlierSameName(n) = {reqs[m].resp.doc_id}
        /\ reqs[n].resp.duplicate_warning # None

\* C5: with requests run one after the other, a trigger_indexing request that
\* selected n documents and got k connector failures answers
\* {triggered: n, succeeded: n-k, failed: k}; each failing document is FAILED and
\* each other one is READY with datastore_ref equal to its own storage_uri.
C5_BatchOutcome ==
    \A n \in OkIndex :
        LET r == reqs[n]
            k == Cardinality(FailedResults(n))
        IN  /\ Len(r.results) = Len(r.docs)
            /\ r.resp.triggered = Len(r.docs)
            /\ r.resp.succeeded = Len(r.docs) - k
            /\ r.resp.failed = k
            /\ \A j \in 1..Len(r.results) :
                 LET d == r.results[j].doc IN
                   /\ d = r.docs[j]
                   /\ IF r.results[j].success
                      THEN /\ docs[d].indexed_status = READY
                           /\ docs[d].datastore_ref = docs[d].storage_uri
                      ELSE docs[d].indexed_status = FAILED

\* a batch of two documents has finished, the connector having failed for one
C5_Witness ==
    \E n \in OkIndex : Len(reqs[n].docs) = 2 /\ Cardinality(FailedResults(n)) = 1

\* C6: an audit event of a trigger_indexing request has status SUCCESS and no
\* error exactly when no import of the request failed; otherwise it has status
\* FAILURE and error "N of M imports failed", N the failed and M the triggered count.
C6_BatchAuditEvent ==
    \A n \in 1..Len(reqs) :
        reqs[n].kind = "index" =>
        \A e \in EventsOf(n) :
            LET failed == Cardinality(FailedResults(n))
                triggered == Len(reqs[n].docs)
            IN  IF failed = 0
                THEN audit[e].status = SUCCESS /\ audit[e].error = None
                ELSE /\ audit[e].status = FAILURE
                     /\ audit[e].error =
                          ToString(failed) \o " of " \o ToString(triggered) \o " imports failed"

\* the audit event of a batch of two with one failed import
C6_Witness ==
    \E n \in 1..Len(reqs) :
        /\ reqs[n].kind = "index"
        /\ \E e \in EventsOf(n) : audit[e].error = "1 of 2 imports failed"

\* C7: a trigger_indexing request that finds no eligible document and meets no
\* ledger fault returns triggered = succeeded = failed = 0 with empty details and
\* has exactly one audit event, of status SUCCESS; none of its steps changes a
\* document.
C7_NothingEligible ==
    /\ [](\A n \in Finished :
            (reqs[n].kind = "index" /\ reqs[n].docs = <<>> /\ reqs[n].exc = None)
            => /\ reqs[n].outcome = "ok"
               /\ reqs[n].resp.triggered = 0
               /\ reqs[n].resp.succeeded = 0
               /\ reqs[n].resp.failed = 0
               /\ reqs[n].resp.details = <<>>
               /\ Cardinality(EventsOf(n)) = 1
               /\ \A e \in EventsOf(n) :
                    audit[e].status = SUCCESS /\ audit[e].error = None)
    /\ [][\A n \in 1..Len(reqs') :
            (/\ reqs'[n].kind = "index" /\ reqs'[n].docs = <<>>
             /\ (n > Len(reqs) \/ reqs'[n] # reqs[n]))
            => docs' = docs]_vars

\* a batch with nothing to do has finished although documents exist
C7_Witness ==
    \E n \in OkIndex : reqs[n].docs = <<>> /\ reqs[n].arg = NoDoc /\ Len(docs) > 0

\* C8: a document whose storage_uri does not start with gs:// is never selected
\* by the eligibility query, never passed to the connector by any request, and
\* is PENDING in every reachable state.
C8_NonGcsStaysPending ==
    \A i \in 1..Len(docs) :
        ~StartsWith(docs[i].storage_uri, "gs://") =>
        /\ docs[i].indexed_status = PENDING
        /\ submitted[i] = 0
        /\ \A n \in 1..Len(reqs) :
             /\ \A j \in 1..Len(reqs[n].docs) : reqs[n].docs[j] # i
             /\ \A j \in 1..Len(reqs[n].results) : reqs[n].results[j].doc # i

\* a trigger_indexing request naming a local document has finished
C8_Witness ==
    \E i \in 1..Len(docs) : \E n \in OkIndex :
        /\ ~StartsWith(docs[i].storage_uri, "gs://")
        /\ reqs[n].arg = i
        /\ \E m \in OkUploads : m < n /\ reqs[m].doc = i

\* C9: datastore_ref is non-null exactly for the documents that have been READY
\* at some point, and a non-null datastore_ref equals the document's storage_uri.
C9_DatastoreRefIffEverReady ==
    \A i \in 1..Len(docs) :
        /\ docs[i].datastore_ref # None <=> i \in everReady
        /\ docs[i].datastore_ref # None => docs[i].datastore_ref = docs[i].storage_uri

\* a document that was READY and no longer is keeps its datastore_ref
C9_Witness ==
    \E i \in 1..Len(docs) :
        /\ i \in everReady
        /\ docs[i].indexed_status = FAILED
        /\ docs[i].datastore_ref = docs[i].storage_uri

\* C10: with requests run one after the other, an upload whose connector call
\* reported a failure never surfaces that failure: unless a storage or ledger
\* fault occurs it returns the success response with the new document id, the
\* document is FAILED and its single audit event has status SUCCESS.
C10_ConnectorFailureSwallowed ==
    \A n \in Finished :
        LET r == reqs[n] IN
        (r.kind = "upload" /\ Len(r.results) = 1 /\ ~r.results[1].success) =>
        /\ r.outcome = "http500" => r.resp.detail \in {LedgerError, StorageError}
        /\ r.exc = None =>
             /\ r.outcome = "ok"
             /\ r.doc # NoDoc /\ r.resp.doc_id = r.doc
             /\ docs[r.doc].indexed_status = FAILED
             /\ Cardinality(EventsOf(n)) = 1
             /\ \A e \in EventsOf(n) : audit[e].status = SUCCESS

\* an upload has returned its success response after a connector failure
C10_Witness ==
    \E n \in OkUploads :
        /\ Len(reqs[n].results) = 1 /\ ~reqs[n].results[1].success
        /\ reqs[n].err = ImportError

\* rows of the document ledger stored under the address request n derived
RowsOf(n) ==
    {i \in 1..Len(docs) :
        docs[i].storage_uri = save_uploaded_file(backend, reqs[n].filename, reqs[n].request_id)}
\* the storage write (docs.py 74) or the ledger insert (docs.py 77) of upload n raised
UploadWriteFailed(n) ==
    /\ reqs[n].kind = "upload"
    /\ \/ reqs[n].exc = StorageError
       \/ reqs[n].exc = LedgerError /\ reqs[n].storage_uri # None /\ reqs[n].doc = NoDoc

\* C11: a finished upload whose storage write or ledger insert failed has
\* exactly one audit event, of status FAILURE with the fault's message as
\* error; the caller gets the upload-failed error response, which carries no
\* document id, and the write was not repeated.
C11_UploadFaultAudited ==
    \A n \in Finished :
        UploadWriteFailed(n) =>
        /\ Cardinality(EventsOf(n)) = 1
        /\ \A e \in EventsOf(n) :
             audit[e].status = FAILURE /\ audit[e].error = reqs[n].exc
        /\ reqs[n].outcome = "http500"
        /\ reqs[n].resp.error = "Upload failed"
        /\ reqs[n].resp.detail = reqs[n].exc
        /\ "doc_id" \notin DOMAIN reqs[n].resp
        /\ Cardinality(RowsOf(n)) <= 1

C13_FaultPairedWithFailureEvent ==
    \A n \in Finished :
        reqs[n].exc # None =>
        Cardinality({e \in EventsOf(n) :
                        audit[e].status = FAILURE /\ audit[e].error # None}) = 1

QueryReqs == {n \in 1..Len(reqs) : reqs[n].kind = "query"}
\* an audit event without the fields that name the request and carry the digest
WithoutDigest(ev) == [ev EXCEPT !.request_id = "", !.prompt_hash = ""]

\* C14: the audit event of a query holds the text only through the truncated
\* digest: the events of any two queries that ended alike are equal once
\* request_id and prompt_hash are left out, so they differ only if the digests
\* differ and no other field gives the text away.
C14_QueryEventHoldsDigestOnly ==
    \A m, n \in QueryReqs :
        \A e1 \in EventsOf(m) : \A e2 \in EventsOf(n) :
            audit[e1].status = audit[e2].status
            => WithoutDigest(audit[e1]) = WithoutDigest(audit[e2])

\* C15: a query that meets no ledger fault returns, and every query that
\* returns gives the fixed refusal answer with an empty citation list, whatever
\* the text and the documents in the ledger; its audit events carry the first
\* 16 hex digits of the SHA-256 of the text, the SUCCESS event with a citation
\* count of zero.
C15_QueryRefuses ==
    \A n \in QueryReqs :
        LET r == reqs[n] IN
        /\ (n \in Finished /\ r.exc = None) => r.outcome = "ok"
        /\ r.outcome = "ok" =>
             /\ r.resp.answer = "Information not found in internal records."
             /\ r.resp.citations = <<>>
             /\ \E e \in EventsOf(n) : audit[e].status = SUCCESS
        /\ \A e \in EventsOf(n) :
             /\ audit[e].prompt_hash = SubSeq(sha256_hexdigest(r.query), 1, 16)
             /\ Len(audit[e].prompt_hash) = 16
             /\ audit[e].status = SUCCESS => audit[e].sources_json.citations_count = 0

\* the empty query has been refused while a document is in the ledger
C15_Witness ==
    \E n \in QueryReqs :
        /\ reqs[n].outcome = "ok" /\ reqs[n].query = ""
        /\ reqs[n].resp.answer = RefusalAnswer
        /\ Len(docs) > 0
        /\ \E e \in EventsOf(n) : audit[e].prompt_hash = "e3b0c44298fc1c14"

Marked == {i \in 1..Len(docs) : docs[i].deleted_at # None}

\* C16: from the step that sets deleted_at on, a document is left out of what
\* every request then begun reads: the list_status documents, the duplicate
\* lookup of an upload and the documents a trigger_indexing selects; its status
\* is never changed again, and no row is ever removed.
C16_SoftDeletedExcluded ==
    [][/\ Len(docs') >= Len(docs)
       /\ \A i \in Marked :
            /\ docs'[i].indexed_status = docs[i].indexed_status
            /\ Len(reqs') > Len(reqs) =>
                 LET r == reqs'[Len(reqs')] IN
                   /\ \A d \in r.documents : d.id # i
                   /\ r.existing_doc # i
                   /\ \A j \in 1..Len(r.docs) : r.docs[j] # i]_vars

\* an unrestricted trigger_indexing has finished with nothing selected while a
\* soft-deleted document uploaded before it is still PENDING under gs://
C16_Witness ==
    \E n \in OkIndex : \E i \in Marked :
        /\ reqs[n].arg = NoDoc /\ reqs[n].docs = <<>>
        /\ docs[i].indexed_status = PENDING
        /\ StartsWith(docs[i].storage_uri, "gs://")
        /\ \E m \in 1..(n - 1) : i \in RowsOf(m)

\* C17: the connector call is bounded: a request that has reached its call of
\* trigger_vertex_import eventually finishes, also when the connector never
\* answers.
C17_ConnectorCallBounded ==
    \A n \in 1..MaxReqs :
        (n <= Len(reqs) /\ reqs[n].pc \in {"import", "blocked"})
        ~> (n <= Len(reqs) /\ reqs[n].outcome # "running")

\* the documents request r selected, as a set
Selected(r) == {r.docs[j] : j \in 1..Len(r.docs)}

\* C18: with requests run one after the other, a document that has left
\* PENDING never returns to it; a trigger_indexing request selects only
\* documents that are PENDING when it begins, and changes and submits to the
\* connector only documents it selected; and a trigger_indexing that begins
\* right after one that returned, asking for the same documents or fewer,
\* selects none.
C18_ReinvocationIdempotent ==
    [][/\ \A i \in 1..Len(docs) :
            docs[i].indexed_status # PENDING => docs'[i].indexed_status # PENDING
       /\ (Len(reqs') > Len(reqs) /\ reqs'[Len(reqs')].kind = "index") =>
            LET r == reqs'[Len(reqs')] IN
              /\ \A i \in Selected(r) : docs[i].indexed_status = PENDING
              /\ (/\ Len(reqs) > 0
                  /\ reqs[Len(reqs)].kind = "index"
                  /\ reqs[Len(reqs)].outcome = "ok"
                  /\ reqs[Len(reqs)].arg \in {NoDoc, r.arg})
                 => r.docs = <<>>
       /\ \A n \in 1..Len(reqs) :
            (reqs[n].kind = "index" /\ reqs'[n] # reqs[n]) =>
            \A i \in 1..Len(docs) :
                (docs'[i] # docs[i] \/ submitted'[i] # submitted[i])
                => i \in Selected(reqs[n])]_vars

\* a trigger_indexing that advanced a document was followed at once by one
\* that selected nothing
C18_Witness ==
    \E n \in OkIndex :
        /\ n + 1 \in OkIndex
        /\ reqs[n].arg = NoDoc /\ reqs[n + 1].arg = NoDoc
        /\ Len(reqs[n].docs) = 1
        /\ docs[reqs[n].docs[1]].indexed_status \in {READY, FAILED}
        /\ reqs[n + 1].docs = <<>>
        /\ reqs[n + 1].resp.triggered = 0

\* C19: no two rows of the document ledger share a storage_uri, and no two
\* requests were given the same address by the storage backend, whatever the
\* filenames, the interleaving of the uploads and the backend.
C19_StorageUrisDistinct ==
    /\ \A i, j \in 1..Len(docs) :
          i # j => docs[i].storage_uri # docs[j].storage_uri
    /\ \A m, n \in 1..Len(reqs) :
          (m # n /\ reqs[m].storage_uri # None)
          => reqs[m].storage_uri # reqs[n].storage_uri

\* two uploads of one filename have both inserted their row while the first
\* is still being handled
C19_Witness ==
    /\ Len(docs) = 2
    /\ docs[1].filename = docs[2].filename
    /\ docs[1].storage_uri # docs[2].storage_uri
    /\ Len(reqs) = 2
    /\ reqs[1].outcome = "running" /\ reqs[2].outcome = "running"
    /\ reqs[1].doc = 2 /\ reqs[2].doc = 1

\* C20: in every reachable state every audit event has a non-null error
\* exactly when its status is FAILURE, whichever operation wrote it.
C20_ErrorIffFailure ==
    \A k \in 1..Len(audit) :
        audit[k].error # None <=> audit[k].status = FAILURE

\* the ledger holds a SUCCESS event without error next to the FAILURE event of
\* a batch with a failed import
C20_Witness ==
    \E k1, k2 \in 1..Len(audit) :
        /\ audit[k1].status = SUCCESS /\ audit[k1].error = None
        /\ audit[k2].status = FAILURE /\ audit[k2].error = "1 of 1 imports failed"

\* the create_audit_event call of the handler's normal path raised (in
\* query_documents that call is the only ledger operation before the handler)
AuditWriteFailed(n) ==
    \/ reqs[n].kind = "query" /\ reqs[n].exc # None
    \/ reqs[n].raised_at = "audit"

\* C21: a finished operation whose audit write failed, every step before it
\* having succeeded, still returns its normal success response; for an upload
\* the response carries the new document id and the row is kept.
C21_AuditFailureNotEscalated ==
    \A n \in Finished :
        AuditWriteFailed(n) =>
        /\ reqs[n].outcome = "ok"
        /\ reqs[n].kind = "upload" =>
             /\ reqs[n].resp.doc_id = reqs[n].doc
             /\ reqs[n].doc \in RowsOf(n)

\* C22: no step removes a document row or changes the id, filename,
\* storage_uri or deleted_at of a row; ids are the positions 1..Len(docs) and
\* deleted_at is null in every row.
C22_RowsKeptIdentityFixed ==
    /\ [](\A i \in 1..Len(docs) : docs[i].id = i /\ docs[i].deleted_at = None)
    /\ [][/\ Len(docs') >= Len(docs)
          /\ \A i \in 1..Len(docs) :
               /\ docs'[i].id = docs[i].id
               /\ docs'[i].filename = docs[i].filename
               /\ docs'[i].storage_uri = docs[i].storage_uri
               /\ docs'[i].deleted_at = docs[i].deleted_at]_vars

\* two rows, the first of which went through INDEXING to FAILED, still under
\* the address its upload stored
C22_Witness ==
    /\ Len(docs) = 2
    /\ docs[1].indexed_status = FAILED
    /\ docs[1].storage_uri = reqs[1].storage_uri
    /\ docs[1].filename = reqs[1].filename
    /\ docs[2].indexed_status = READY

\* C23: the events of two queries with the same text carry the same
\* prompt_hash, and the prompt_hash of every query event is 16 characters long
\* whatever the length of the text.
C23_DigestDeterministicFixedLength ==
    /\ \A m, n \in QueryReqs :
          reqs[m].query = reqs[n].query =>
          \A e1 \in EventsOf(m) : \A e2 \in EventsOf(n) :
              audit[e1].prompt_hash = audit[e2].prompt_hash
    /\ \A n \in QueryReqs :
          \A e \in EventsOf(n) : Len(audit[e].prompt_hash) = 16

\* two queries with the same text of 26 characters have their events
C23_Witness ==
    \E m, n \in QueryReqs :
        /\ m # n /\ reqs[m].query = reqs[n].query /\ Len(reqs[m].query) = 26
        /\ EventsOf(m) # {} /\ EventsOf(n) # {}

\* In a step that appends an audit event: the statuses, after the step, of the
\* documents the event's request has touched are settled. For an upload these
\* are the rows under its address, PENDING on the local backend and READY or
\* FAILED on the remote one; for a batch the documents it selected, READY or
\* FAILED.
SettledAtAppend(eventStatuses) ==
    Len(audit') > Len(audit) =>
    LET ev == audit'[Len(audit')]
        n == CHOOSE k \in 1..Len(reqs') : reqs'[k].request_id = ev.request_id
        r == reqs'[n]
    IN  ev.status \in eventStatuses =>
        /\ r.kind = "upload" =>
             \A i \in 1..Len(docs') :
                 docs'[i].storage_uri = r.storage_uri =>
                 docs'[i].indexed_status \in
                     (IF backend = "gcs" THEN {READY, FAILED} ELSE {PENDING})
        /\ r.kind = "index" =>
             \A i \in Selected(r) : docs'[i].indexed_status \in {READY, FAILED}

IndexReqs == {n \in 1..Len(reqs) : reqs[n].kind = "index"}

\* C25: with requests run one after the other, a trigger_indexing request
\* hands its selected documents to the connector one by one in the order of the
\* eligibility query, each while it is INDEXING, and a request that meets no
\* ledger fault returns with a connector answer for every selected document and
\* each of them READY or FAILED, whatever the answers for the earlier ones.
C25_BatchRunsThrough ==
    /\ [](\A n \in IndexReqs :
            LET r == reqs[n] IN
            /\ Len(r.results) <= Len(r.docs)
            /\ \A j \in 1..Len(r.results) : r.results[j].doc = r.docs[j]
            /\ (n \in Finished /\ r.exc = None) =>
                 /\ r.outcome = "ok"
                 /\ Len(r.results) = Len(r.docs)
                 /\ \A i \in Selected(r) : docs[i].indexed_status \in {READY, FAILED})
    /\ [][\A n \in 1..Len(reqs) :
            (reqs[n].kind = "index" /\ Len(reqs'[n].results) > Len(reqs[n].results))
            => docs[reqs'[n].results[Len(reqs'[n].results)].doc].indexed_status = INDEXING]_vars

\* a batch of two has returned: the first import failed, the second succeeded
C25_Witness ==
    \E n \in OkIndex :
        /\ Len(reqs[n].results) = 2
        /\ ~reqs[n].results[1].success /\ reqs[n].results[2].success
        /\ docs[reqs[n].docs[1]].indexed_status = FAILED
        /\ docs[reqs[n].docs[2]].indexed_status = READY

\* C26: with requests run one after the other, every trigger_indexing
\* response has triggered = succeeded + failed = length of details, with one
\* details entry per selected document, in order, naming its id and filename;
\* the entry has status "ready" and no error exactly when the connector
\* succeeded for the document and the request marked it READY, and status
\* "failed" with the connector's error otherwise.
C26_ResponseAccounting ==
    \A n \in OkIndex :
        LET r == reqs[n]
            resp == reqs[n].resp
        IN  /\ resp.triggered = resp.succeeded + resp.failed
            /\ resp.triggered = Len(resp.details)
            /\ Len(resp.details) = Len(r.docs)
            /\ resp.succeeded =
                 Cardinality({j \in 1..Len(resp.details) : resp.details[j].status = "ready"})
            /\ \A j \in 1..Len(resp.details) :
                 LET d == resp.details[j] IN
                   /\ d.doc_id = r.docs[j]
                   /\ \A k \in 1..Len(resp.details) : k # j => resp.details[k].doc_id # d.doc_id
                   /\ d.filename = docs[d.doc_id].filename
                   /\ d.status \in {"ready", "failed"}
                   /\ d.status = "ready" <=> r.results[j].success
                   /\ d.status = "ready" <=> docs[d.doc_id].indexed_status = READY
                   /\ d.status = "ready" => d.error = None
                   /\ d.status = "failed" =>
                        d.error # None /\ d.error = r.results[j].err

\* a response with two details entries, one ready without error and one
\* failed with the connector's error
C26_Witness ==
    \E n \in OkIndex :
        /\ Len(reqs[n].resp.details) = 2
        /\ reqs[n].resp.details[1].status = "ready"
        /\ reqs[n].resp.details[1].error = None
        /\ reqs[n].resp.details[2].status = "failed"
        /\ reqs[n].resp.details[2].error = ImportError
        /\ reqs[n].resp.succeeded = 1 /\ reqs[n].resp.failed = 1

C28_UnconfiguredBatch ==
    ~configured =>
    \A n \in IndexReqs :
        LET r == reqs[n] IN
        /\ \A j \in 1..Len(r.results) :
             ~r.results[j].success /\ r.results[j].err = NotConfiguredError
        /\ (n \in Finished /\ r.exc = None) =>
             /\ r.outcome = "ok"
             /\ r.resp.triggered = Len(r.docs)
             /\ r.resp.failed = Len(r.docs)
             /\ r.resp.succeeded = 0
             /\ Len(r.resp.details) = Len(r.docs)
             /\ \A j \in 1..Len(r.docs) :
                  /\ r.resp.details[j].doc_id = r.docs[j]
                  /\ r.resp.details[j].status = "failed"
                  /\ r.resp.details[j].error = NotConfiguredError
                  /\ docs[r.docs[j]].indexed_status = FAILED
                  /\ submitted[r.docs[j]] = 0

\* an unconfigured batch of two documents has returned
C28_Witness ==
    /\ ~configured
    /\ \E n \in OkIndex :
         /\ Len(reqs[n].docs) = 2
         /\ reqs[n].resp.failed = 2 /\ reqs[n].resp.triggered = 2
         /\ reqs[n].resp.succeeded = 0

\* the criteria of the eligibility query, for document id d
Eligible(d) ==
    /\ d \in 1..Len(docs)
    /\ docs[d].deleted_at = None
    /\ docs[d].indexed_status = PENDING
    /\ StartsWith(docs[d].storage_uri, "gs://")

\* C29: a trigger_indexing request given a document id selects that document
\* if it is an active PENDING gs:// row when the request begins, and nothing
\* otherwise; no step of the request changes any other document. If nothing
\* was selected and no ledger fault occurs the request returns all-zero counts
\* with empty details, having changed no document; if the document was
\* selected the response has triggered = 1.
C29_SingleDocumentBatch ==
    /\ [][/\ (Len(reqs') > Len(reqs) /\ reqs'[Len(reqs')].kind = "index"
                /\ reqs'[Len(reqs')].arg # NoDoc /\ reqs'[Len(reqs')].exc = None)
             => reqs'[Len(reqs')].docs =
                  (IF Eligible(reqs'[Len(reqs')].arg)
                   THEN <<reqs'[Len(reqs')].arg>> ELSE <<>>)
          /\ \A n \in 1..Len(reqs) :
               (reqs[n].kind = "index" /\ reqs[n].arg # NoDoc /\ reqs'[n] # reqs[n])
               => \A i \in 1..Len(docs) :
                    (i # reqs[n].arg \/ reqs[n].docs = <<>>) => docs'[i] = docs[i]]_vars
    /\ [](\A n \in IndexReqs :
             (reqs[n].arg # NoDoc /\ n \in Finished /\ reqs[n].exc = None) =>
             /\ reqs[n].outcome = "ok"
             /\ reqs[n].resp.triggered = Len(reqs[n].docs)
             /\ Len(reqs[n].docs) <= 1
             /\ reqs[n].docs = <<>> =>
                  /\ reqs[n].resp.succeeded = 0 /\ reqs[n].resp.failed = 0
                  /\ reqs[n].resp.details = <<>>)

\* a request naming a soft-deleted PENDING gs:// document has returned zero
\* counts, and the document is still PENDING
C29_Witness ==
    \E n \in OkIndex : \E i \in Marked :
        /\ reqs[n].arg = i
        /\ reqs[n].resp.triggered = 0 /\ reqs[n].resp.details = <<>>
        /\ docs[i].indexed_status = PENDING
        /\ StartsWith(docs[i].storage_uri, "gs://")

\* C30: a step that adds a document row adds exactly one, with indexed_status
\* PENDING, datastore_ref null, deleted_at null, an id that no existing row
\* has, and as filename the original filename of the upload that stored the
\* row's address, not the name of the stored object.
C30_RowAsCreated ==
    [][Len(docs') # Len(docs) =>
         /\ Len(docs') = Len(docs) + 1
         /\ LET row == docs'[Len(docs')] IN
              /\ row.indexed_status = PENDING
              /\ row.datastore_ref = None
              /\ row.deleted_at = None
              /\ \A i \in 1..Len(docs) : docs[i].id # row.id
              /\ \E n \in 1..Len(reqs) :
                   /\ reqs[n].kind = "upload"
                   /\ reqs[n].storage_uri = row.storage_uri
                   /\ row.filename = reqs[n].filename
                   /\ row.filename \in {"unnamed", "a.pdf"}
              /\ row.filename # row.storage_uri
              /\ ~Contains(row.filename, "req-")]_vars

\* a second row has just been inserted, PENDING and without reference, next
\* to a first row that is READY
C30_Witness ==
    /\ Len(docs) = 2
    /\ docs[1].indexed_status = READY
    /\ docs[2].indexed_status = PENDING /\ docs[2].datastore_ref = None
    /\ docs[2].id = 2 /\ docs[2].filename = "unnamed"
    /\ \E n \in 1..Len(reqs) : reqs[n].doc = 2 /\ reqs[n].pc \in {"mark_indexing", "audit"}

\* C31: over every interleaving of uploads and trigger_indexing requests, no
\* document is sent to the indexing connector more than once.
C31_SubmittedAtMostOnce == \A i \in 1..Len(docs) : submitted[i] <= 1

\* C32: with requests run one after the other, no finished request leaves a
\* document INDEXING: whenever no request is being handled, no document is
\* INDEXING, also after a status update that raised.
C32_IndexingIsTransient ==
    InFlight = {} => \A i \in 1..Len(docs) : docs[i].indexed_status # INDEXING

\* C33: an upload that has surfaced the upload-failed fault has left no row in
\* the document ledger, wherever in the handler the fault was raised.
C33_FailedUploadLeavesNoRow ==
    \A n \in Finished :
        (reqs[n].kind = "upload" /\ reqs[n].outcome = "http500") => RowsOf(n) = {}

NoFaultSoFar == \A n \in 1..Len(reqs) : reqs[n].exc = None

\* C34: with the remote backend, requests run one after the other and no
\* fault so far, the document of every returned upload has left PENDING, every
\* trigger_indexing request has selected nothing and every trigger_indexing
\* response reports triggered = 0.
C34_NothingPendingWithoutFault ==
    (backend = "gcs" /\ NoFaultSoFar) =>
    /\ \A n \in OkUploads : docs[reqs[n].doc].indexed_status \in {READY, FAILED}
    /\ \A n \in IndexReqs :
         /\ reqs[n].docs = <<>>
         /\ n \in Finished => (reqs[n].outcome = "ok" /\ reqs[n].resp.triggered = 0)

\* two remote uploads have returned without a fault and an unrestricted
\* trigger_indexing after them has reported triggered = 0
C34_Witness ==
    /\ backend = "gcs" /\ NoFaultSoFar
    /\ Len(docs) = 2
    /\ \E n \in OkIndex :
         /\ n = 3 /\ reqs[n].arg = NoDoc
         /\ reqs[n].resp.triggered = 0
         /\ \E e \in EventsOf(n) : audit[e].sources_json.triggered = 0

\* C35: a step of a list_status or query request changes no document row and
\* nothing in storage; a list_status that reads the ledger gets exactly the rows
\* whose deleted_at is null in that state, returns them, and the doc_count of
\* its SUCCESS event is the number of documents in its response.
C35_ReadOnlyOperations ==
    /\ [][/\ (Len(reqs') > Len(reqs) /\ reqs'[Len(reqs')].kind \in {"status", "query"})
             => docs' = docs /\ storage' = storage
          /\ \A n \in 1..Len(reqs) :
               (reqs[n].kind \in {"status", "query"} /\ reqs'[n] # reqs[n])
               => docs' = docs /\ storage' = storage
          /\ (Len(reqs') > Len(reqs) /\ reqs'[Len(reqs')].kind = "status"
                /\ reqs'[Len(reqs')].exc = None)
             => reqs'[Len(reqs')].documents =
                  {docs[i] : i \in {k \in 1..Len(docs) : docs[k].deleted_at = None}}]_vars
    /\ [](\A n \in Finished :
             (reqs[n].kind = "status" /\ reqs[n].outcome = "ok") =>
             /\ reqs[n].resp.documents = reqs[n].documents
             /\ \A d \in reqs[n].resp.documents : d.deleted_at = None
             /\ \E e \in EventsOf(n) : audit[e].status = SUCCESS
             /\ \A e \in EventsOf(n) :
                  audit[e].status = SUCCESS
                  => audit[e].sources_json.doc_count = Cardinality(reqs[n].resp.documents))

\* a list_status has returned one of two documents, the other being
\* soft-deleted, with doc_count 1 in its event
C35_Witness ==
    \E n \in Finished :
        /\ reqs[n].kind = "status" /\ reqs[n].outcome = "ok"
        /\ Len(docs) = 2 /\ Cardinality(Marked) = 1
        /\ Cardinality(reqs[n].resp.documents) = 1
        /\ \E e \in EventsOf(n) : audit[e].sources_json.doc_count = 1

====
